---- MODULE Spec2Model ----
(***************************************************************************)
(* Model of todo.py: a task list (User) with a linear undo/redo history    *)
(* (TaskCaretaker).                                                        *)
(*                                                                         *)
(* Python objects that are aliased by the code are modelled as heap        *)
(* objects with an identity:                                               *)
(*   objs[t]      the attribute dictionary (__dict__) of Task object t;    *)
(*                a Task and its __dict__ are one object, named t;         *)
(*   taglists[l]  the list object l that some Task's "tags" refers to.     *)
(* Lists that the code always creates afresh and never shares (user.tasks, *)
(* each element of caretaker.history, the copy made by get_state) are      *)
(* modelled as sequences of object identities.                             *)
(* Python's history[i] (0-based) is history[i + 1] here.                   *)
(* raised is the exception the last call left to its caller ("none" when   *)
(* it returned); pc and out are the menu loop's position and the last      *)
(* message it printed.                                                     *)
(***************************************************************************)
EXTENDS Integers, Sequences, FiniteSets, TLC

VARIABLES tasks, history, index, objs, taglists, builders, raised, pc, out

vars == <<tasks, history, index, objs, taglists, builders, raised, pc, out>>

(* bounds of the model *)
MaxObjs == 5
MaxHist == 3
MaxTags == 2
MaxRetainedObjs == 3
MaxRetainedHist == 3
MaxMenuObjs == 4
MaxMenuHist == 3

(* Python's None for due_date, and for the tags argument of Task() *)
None == "None"
NoList == 0

DueDates == {None, "d1"}
Tags == {"x"}

(* the arguments a caller builds a task from: "Buy milk" tagged "errand",  *)
(* and "Call Bob"                                                          *)
InputA == [description |-> "A", due_date |-> None, tags |-> <<"x">>]
InputB == [description |-> "B", due_date |-> None, tags |-> <<>>]
BuildInputs == {InputA, InputB}

Range(s) == { s[i] : i \in 1..Len(s) }

(* the program state as one record, so that operations compose *)
State ==
    [ tasks |-> tasks, history |-> history, index |-> index, objs |-> objs,
      taglists |-> taglists, builders |-> builders, raised |-> raised,
      pc |-> pc, out |-> out ]

(* seq[i] of Python: 0-based, a negative i counts from the end *)
PyGet(seq, i) == IF i >= 0 THEN seq[i + 1] ELSE seq[Len(seq) + i + 1]

(* ---------------- Task ---------------- *)

(* Task.__init__ with one default list shared by every call, as a mutable  *)
(* default argument would give                                             *)
Task_shared_default(s, description, due_date, tags) ==
    LET tl == IF tags = NoList /\ s.taglists = <<>> THEN << <<>> >> ELSE s.taglists
        l  == IF tags = NoList THEN 1 ELSE tags
    IN  [s EXCEPT !.taglists = tl,
                  !.objs = Append(@, [description |-> description,
                                      due_date |-> due_date,
                                      tags |-> l])]

(* Task.__init__: a new Task object; tags = NoList allocates a new empty   *)
(* list, any other value is stored as given (the same list object); any    *)
(* description is accepted                                                 *)
Task(s, description, due_date, tags) ==
    LET tl == IF tags = NoList THEN Append(s.taglists, <<>>) ELSE s.taglists
        l  == IF tags = NoList THEN Len(tl) ELSE tags
    IN  [s EXCEPT !.taglists = tl,
                  !.objs = Append(@, [description |-> description,
                                      due_date |-> due_date,
                                      tags |-> l])]

(* task.__dict__: the attribute dictionary IS the task's own storage *)
DictOf(t) == t

(* ---------------- TaskBuilder ---------------- *)

(* TaskBuilder.__init__: self.task = Task(description); the builder is     *)
(* identified with the Task it holds                                       *)
TaskBuilder(s, description) ==
    LET s1 == Task(s, description, None, NoList)
    IN  [s1 EXCEPT !.builders = @ \cup {Len(s1.objs)}]

set_due_date(s, b, due_date) ==
    [s EXCEPT !.objs[b].due_date = due_date]

add_tag(s, b, tag) ==
    [s EXCEPT !.taglists[s.objs[b].tags] = Append(@, tag)]

RECURSIVE add_tags(_, _, _)
add_tags(s, b, tgs) ==
    IF tgs = <<>> THEN s
    ELSE add_tags(add_tag(s, b, Head(tgs)), b, Tail(tgs))

(* build() returns self.task *)
build(b) == b

(* ---------------- TaskMemento ---------------- *)

TaskMemento(ts) == [tasks |-> ts]

(* self.tasks.copy(): a new list holding the same elements *)
get_state(memento) == [i \in 1..Len(memento.tasks) |-> memento.tasks[i]]

(* ---------------- User.restore_from_memento ---------------- *)

(* the list comprehension of restore_from_memento: one new Task per        *)
(* dictionary, built from the dictionary's three entries passed as keyword *)
(* arguments; r.made collects the new Tasks                                *)
RECURSIVE RebuildTasks(_, _, _)
RebuildTasks(s, ds, made) ==
    IF ds = <<>> THEN [s |-> s, made |-> made]
    ELSE LET d  == s.objs[Head(ds)]
             s1 == Task(s, d.description, d.due_date, d.tags)
         IN  RebuildTasks(s1, Tail(ds), Append(made, Len(s1.objs)))

(* restore that builds the Tasks but leaves the old list in place *)
restore_from_memento_dropped(s, memento) ==
    RebuildTasks(s, get_state(memento), <<>>).s

restore_from_memento(s, memento) ==
    LET r == RebuildTasks(s, get_state(memento), <<>>)
    IN  [r.s EXCEPT !.tasks = r.made]

(* ---------------- TaskCaretaker ---------------- *)

(* save_to_history that keeps one snapshot too few when it prunes *)
save_to_history_short(s) ==
    [s EXCEPT !.history = Append(SubSeq(s.history, 1, s.index),
                                 [i \in 1..Len(s.tasks) |-> DictOf(s.tasks[i])]),
              !.index = s.index + 1]

(* save_to_history that appends without discarding what follows the cursor *)
save_to_history_keeping(s) ==
    [s EXCEPT !.history = Append(s.history,
                                 [i \in 1..Len(s.tasks) |-> DictOf(s.tasks[i])]),
              !.index = s.index + 1]

save_to_history(s) ==
    [s EXCEPT !.history = Append(SubSeq(s.history, 1, s.index + 1),
                                 [i \in 1..Len(s.tasks) |-> DictOf(s.tasks[i])]),
              !.index = s.index + 1]

(* undo that restores before it moves the cursor *)
undo_stale(s) ==
    IF s.index > 0
    THEN LET s1 == [s EXCEPT !.index = s.index - 1]
         IN  restore_from_memento(s1, TaskMemento(PyGet(s.history, s.index)))
    ELSE s

(* undo whose guard lets the cursor leave position 0 *)
undo_ge0(s) ==
    IF s.index >= 0
    THEN LET s1 == [s EXCEPT !.index = s.index - 1]
         IN  restore_from_memento(s1, TaskMemento(PyGet(s1.history, s1.index)))
    ELSE s

(* undo that pops the snapshot it leaves, as a two-stack design would *)
undo_popping(s) ==
    IF s.index > 0
    THEN LET s1 == [s EXCEPT !.index = s.index - 1,
                             !.history = SubSeq(@, 1, s.index)]
         IN  restore_from_memento(s1, TaskMemento(PyGet(s1.history, s1.index)))
    ELSE s

undo(s) ==
    IF s.index > 0
    THEN LET s1 == [s EXCEPT !.index = s.index - 1]
         IN  restore_from_memento(s1, TaskMemento(PyGet(s1.history, s1.index)))
    ELSE s

(* redo that records the list it has just installed as a new snapshot *)
redo_recording(s) ==
    IF s.index < Len(s.history) - 1
    THEN LET s1 == [s EXCEPT !.index = s.index + 1]
         IN  save_to_history(
                 restore_from_memento(s1, TaskMemento(PyGet(s1.history, s1.index))))
    ELSE s

(* redo that restores before it moves the cursor *)
redo_stale(s) ==
    IF s.index < Len(s.history) - 1
    THEN LET s1 == [s EXCEPT !.index = s.index + 1]
         IN  restore_from_memento(s1, TaskMemento(PyGet(s.history, s.index)))
    ELSE s

(* redo that steps from the last snapshot back to the first *)
redo_wrapping(s) ==
    IF s.index < Len(s.history) - 1
    THEN LET s1 == [s EXCEPT !.index = s.index + 1]
         IN  restore_from_memento(s1, TaskMemento(PyGet(s1.history, s1.index)))
    ELSE IF Len(s.history) > 1
    THEN LET s1 == [s EXCEPT !.index = 0]
         IN  restore_from_memento(s1, TaskMemento(PyGet(s1.history, s1.index)))
    ELSE s

redo(s) ==
    IF s.index < Len(s.history) - 1
    THEN LET s1 == [s EXCEPT !.index = s.index + 1]
         IN  restore_from_memento(s1, TaskMemento(PyGet(s1.history, s1.index)))
    ELSE s

(* ---------------- User ---------------- *)

(* a removal that drops the last element, whatever x is *)
ListRemove_last(seq, x) ==
    IF seq = <<>> THEN <<>> ELSE SubSeq(seq, 1, Len(seq) - 1)

(* list.remove(x): deletes the first element equal to x; Task defines no   *)
(* __eq__, so equality is object identity                                  *)
RECURSIVE ListRemove(_, _)
ListRemove(seq, x) ==
    IF seq = <<>> THEN <<>>
    ELSE IF Head(seq) = x THEN Tail(seq)
    ELSE <<Head(seq)>> \o ListRemove(Tail(seq), x)

(* add_task that records before it appends *)
add_task_save_first(s, t) ==
    [save_to_history(s) EXCEPT !.tasks = Append(@, t)]

add_task(s, t) ==
    save_to_history([s EXCEPT !.tasks = Append(@, t)])

(* remove_task that swallows the error and records all the same *)
remove_task_swallowing(s, t) ==
    IF t \in Range(s.tasks)
    THEN save_to_history([s EXCEPT !.tasks = ListRemove(@, t)])
    ELSE save_to_history(s)

(* list.remove raises ValueError when x is absent, before save_to_history *)
remove_task(s, t) ==
    IF t \in Range(s.tasks)
    THEN save_to_history([s EXCEPT !.tasks = ListRemove(@, t)])
    ELSE [s EXCEPT !.raised = "ValueError"]

(* ---------------- the state machine ---------------- *)

(* User("User"): no tasks, empty history, index -1 *)
Init ==
    /\ tasks = <<>>
    /\ history = <<>>
    /\ index = -1
    /\ objs = <<>>
    /\ taglists = <<>>
    /\ builders = {}
    /\ raised = "none"
    /\ pc = "menu"
    /\ out = ""

InBounds(s) ==
    /\ Len(s.objs) <= MaxObjs
    /\ Len(s.history) <= MaxHist
    /\ \A l \in 1..Len(s.taglists) : Len(s.taglists[l]) <= MaxTags

Becomes(s) ==
    /\ InBounds(s)
    /\ tasks' = s.tasks
    /\ history' = s.history
    /\ index' = s.index
    /\ objs' = s.objs
    /\ taglists' = s.taglists
    /\ builders' = s.builders
    /\ raised' = s.raised
    /\ pc' = s.pc
    /\ out' = s.out

(* the state after User("User"), as a record *)
Fresh ==
    [ tasks |-> <<>>, history |-> <<>>, index |-> -1, objs |-> <<>>,
      taglists |-> <<>>, builders |-> {}, raised |-> "none",
      pc |-> "menu", out |-> "" ]

(* a call starts with no exception pending *)
Enter == [State EXCEPT !.raised = "none"]

(* the caller builds a Task with a TaskBuilder and adds it *)
BuildTask(s, in) ==
    LET s1 == TaskBuilder(s, in.description)
        b  == Len(s1.objs)
        s2 == IF in.due_date # None THEN set_due_date(s1, b, in.due_date) ELSE s1
    IN  add_tags(s2, b, in.tags)

BuildAndAdd(s, in) ==
    LET s1 == BuildTask(s, in)
    IN  add_task(s1, build(Len(s1.objs)))

AddBuiltTask ==
    \E in \in BuildInputs : Becomes(BuildAndAdd(Enter, in))

(* the caller adds again a Task object it built earlier *)
AddHeldTask ==
    \E t \in builders : Becomes(add_task(Enter, t))

(* the caller removes a Task object it holds (one of user.tasks, or one it  *)
(* built earlier), in the list or not                                      *)
RemoveTask ==
    \E t \in Range(tasks) \cup builders : Becomes(remove_task(Enter, t))

Undo == Becomes(undo(Enter))

Redo == Becomes(redo(Enter))

(* a caller that kept its TaskBuilder goes on using it *)
BuilderAddTag ==
    \E b \in builders, tag \in Tags : Becomes(add_tag(Enter, b, tag))

BuilderSetDueDate ==
    \E b \in builders, d \in DueDates : Becomes(set_due_date(Enter, b, d))

Next ==
    \/ AddBuiltTask
    \/ AddHeldTask
    \/ RemoveTask
    \/ Undo
    \/ Redo

Spec == Init /\ [][Next]_vars

(* the same calls, with fewer objects, plus the retained builders' calls *)
RetainedBound == Len(objs) <= MaxRetainedObjs /\ Len(history) <= MaxRetainedHist

NextRetained ==
    \/ AddBuiltTask /\ RetainedBound'
    \/ AddHeldTask /\ RetainedBound'
    \/ RemoveTask /\ RetainedBound'
    \/ Undo /\ RetainedBound'
    \/ Redo /\ RetainedBound'
    \/ BuilderAddTag
    \/ BuilderSetDueDate

SpecRetained == Init /\ [][NextRetained]_vars

(* ---------------- the menu loop ---------------- *)

(* what the user types at the prompts of choice 1: a description, a due    *)
(* date ("" skips it) and a tags line, given as its comma-separated pieces *)
(* (<<>> is the empty line); a piece is its text with or without blanks    *)
(* around it                                                               *)
MenuInputA ==
    [description |-> "A", due_date |-> "",
     tags |-> << [text |-> "x", padded |-> TRUE] >>]
MenuInputEmpty ==
    [description |-> "", due_date |-> "d1", tags |-> <<>>]
MenuInputs == {MenuInputA, MenuInputEmpty}

(* what the user types at the index prompt of choice 2: the text of an     *)
(* integer, or a line that int() does not accept, such as "abc"            *)
NotANumber == [numeral |-> FALSE, value |-> 0]
IndexInputs ==
    {[numeral |-> TRUE, value |-> i] : i \in -1..MaxMenuObjs} \cup {NotANumber}

(* tag.strip() *)
strip(piece) == piece.text

(* choice 1: build the task from the three answers, add it *)
choice1(s, in) ==
    LET s1 == TaskBuilder(s, in.description)
        b  == Len(s1.objs)
        s2 == IF in.due_date # "" THEN set_due_date(s1, b, in.due_date) ELSE s1
        s3 == IF in.tags # <<>>
              THEN add_tags(s2, b, [i \in 1..Len(in.tags) |-> strip(in.tags[i])])
              ELSE s2
    IN  [add_task(s3, build(b)) EXCEPT !.out = "Task added successfully."]

(* choice 2: int() of a line that is no number raises ValueError, which    *)
(* nothing catches: the program ends with a traceback                      *)
(* choice 2 that records a snapshot whether or not the index was valid *)
choice2_recording(s, line) ==
    IF ~line.numeral
    THEN [s EXCEPT !.raised = "ValueError", !.pc = "crashed"]
    ELSE LET index_to_remove == line.value
         IN  IF 0 <= index_to_remove /\ index_to_remove < Len(s.tasks)
             THEN [remove_task(s, PyGet(s.tasks, index_to_remove))
                       EXCEPT !.out = "Task removed successfully."]
             ELSE [save_to_history(s) EXCEPT !.out = "Invalid index."]

choice2(s, line) ==
    IF ~line.numeral
    THEN [s EXCEPT !.raised = "ValueError", !.pc = "crashed"]
    ELSE LET index_to_remove == line.value
         IN  IF 0 <= index_to_remove /\ index_to_remove < Len(s.tasks)
             THEN [remove_task(s, PyGet(s.tasks, index_to_remove))
                       EXCEPT !.out = "Task removed successfully."]
             ELSE [s EXCEPT !.out = "Invalid index."]

choice3(s) == [s EXCEPT !.out = "Tasks for User:"]

choice4(s) == [undo(s) EXCEPT !.out = "Undo successful."]

choice5(s) == [redo(s) EXCEPT !.out = "Redo successful."]

choice6(s) == [s EXCEPT !.out = "Exiting the program.", !.pc = "exited"]

choiceOther(s) ==
    [s EXCEPT !.out = "Invalid choice. Please enter a number between 1 and 6."]

MenuBound(s) == Len(s.objs) <= MaxMenuObjs /\ Len(s.history) <= MaxMenuHist

(* one turn of the while loop *)
Turn(s) == pc = "menu" /\ MenuBound(s) /\ Becomes(s)

Choice1 == \E in \in MenuInputs : Turn(choice1(Enter, in))

Choice2 == \E line \in IndexInputs : Turn(choice2(Enter, line))

Choice3 == Turn(choice3(Enter))

Choice4 == Turn(choice4(Enter))

Choice5 == Turn(choice5(Enter))

Choice6 == Turn(choice6(Enter))

ChoiceOther == Turn(choiceOther(Enter))

NextMenu ==
    \/ Choice1
    \/ Choice2
    \/ Choice3
    \/ Choice4
    \/ Choice5
    \/ Choice6
    \/ ChoiceOther

SpecMenu == Init /\ [][NextMenu]_vars

(* ---------------- values ---------------- *)

(* a task by value: description, due_date and the contents of its tags *)
TaskVal(o, tl, t) ==
    [description |-> o[t].description, due_date |-> o[t].due_date,
     tags |-> tl[o[t].tags]]

ListVal(o, tl, seq) == [i \in 1..Len(seq) |-> TaskVal(o, tl, seq[i])]

LiveVal == ListVal(objs, taglists, tasks)

SnapVal(k) == ListVal(objs, taglists, history[k])

(* the live list by value in a state record *)
ValOf(s) == ListVal(s.objs, s.taglists, s.tasks)

(* a successful add_task or remove_task *)
Mutation == AddBuiltTask \/ AddHeldTask \/ (RemoveTask /\ raised' = "none")

(* some live Task was made by restore_from_memento, not by a builder *)
Restored == \E i \in 1..Len(tasks) : tasks[i] \notin builders

(* ---------------- properties ---------------- *)

(* C1: after every add_task, remove_task, undo or redo, whenever           *)
(* index >= 0 the live list equals, task by task and field by field, the   *)
(* snapshot stored at history[index].                                      *)
C1_LiveEqualsCursorSnapshot ==
    index >= 0 => LiveVal = SnapVal(index + 1)

(* the live list was installed by an undo or redo and is not empty *)
C1_Witness ==
    /\ index >= 0
    /\ Restored
    /\ Len(history) >= 2
    /\ LiveVal = SnapVal(index + 1)

(* C3: undo with index > 0 decrements index by exactly one and installs    *)
(* the snapshot now at index as the live list; undo never takes the cursor *)
(* below 0.                                                                *)
C3_UndoMovesLeftByOne ==
    [][Undo =>
        /\ index > 0 =>
              /\ index' = index - 1
              /\ ListVal(objs', taglists', tasks') = SnapVal(index)
        /\ index >= 0 => index' >= 0
        /\ index' >= -1]_vars

(* an undo has moved the cursor: something is left to redo *)
C3_Witness ==
    /\ index >= 0
    /\ index < Len(history) - 1
    /\ Restored
    /\ LiveVal = SnapVal(index + 1)

(* C4: redo with index < len(history) - 1 increments index by exactly one  *)
(* and installs the snapshot now at index as the live list; redo never     *)
(* takes the cursor past len(history) - 1.                                 *)
C4_RedoMovesRightByOne ==
    [][Redo =>
        /\ index < Len(history) - 1 =>
              /\ index' = index + 1
              /\ ListVal(objs', taglists', tasks') = SnapVal(index + 2)
        /\ index' <= Len(history') - 1]_vars

(* a redo has moved the cursor back to the last snapshot: the first        *)
(* snapshot always holds a builder's Task, so a cursor past it with only   *)
(* restored Tasks in the list was reached by redo                          *)
C4_Witness ==
    /\ index >= 1
    /\ index = Len(history) - 1
    /\ tasks # <<>>
    /\ \A i \in 1..Len(tasks) : tasks[i] \notin builders
    /\ tasks # PyGet(history, index)

(* C5: undo at index -1 or 0, and redo at the last index, change nothing:  *)
(* live list, index, history and every object stay as they are, so any     *)
(* number of repetitions changes nothing either.                           *)
C5_BoundaryNoOps ==
    /\ index <= 0 => undo(Enter) = Enter
    /\ index = Len(history) - 1 => redo(Enter) = Enter
    /\ index <= 0 => undo(undo(Enter)) = Enter
    /\ index = Len(history) - 1 => redo(redo(Enter)) = Enter

(* the cursor is at the floor with snapshots to redo, after undo calls *)
C5_Witness ==
    /\ index = 0
    /\ Len(history) >= 2
    /\ Restored
    /\ undo(Enter) = Enter

(* C6: where undo moves the cursor (index > 0), undo followed at once by   *)
(* redo gives back the same live list by value, the same index and the     *)
(* same history.                                                           *)
C6_UndoRedoRoundTrip ==
    index > 0 =>
        LET r == redo(undo(Enter))
        IN  /\ ValOf(r) = LiveVal
            /\ r.index = index
            /\ r.history = history

(* two tasks added, nothing undone yet: add(T1), add(T2), and the round    *)
(* trip from there rebuilds both Tasks                                     *)
C6_Witness ==
    /\ index = 1
    /\ Len(history) = 2
    /\ Len(tasks) = 2
    /\ ~Restored
    /\ redo(undo(Enter)).tasks # tasks
    /\ undo(Enter).index = 0

(* C10: the cursor stays within -1 .. len(history) - 1, and starts at -1   *)
(* with an empty history.                                                  *)
C10_CursorBounds ==
    /\ -1 <= index
    /\ index <= Len(history) - 1
    /\ objs = <<>> => index = -1 /\ history = <<>>

(* the cursor strictly inside the history *)
C10_Witness ==
    /\ index = 1
    /\ Len(history) = 3

(* C2: a successful add_task or remove_task leaves no snapshot after the   *)
(* cursor (the snapshots up to the old cursor stay, one is appended, the   *)
(* rest is discarded), so a redo right after it changes nothing; every     *)
(* other call, so every undo and redo, leaves history as it is and         *)
(* installs only a snapshot that is in it, so a discarded snapshot is      *)
(* never installed again.                                                  *)
C2_RedoInvalidation ==
    [][ IF Mutation
        THEN /\ Len(history') = index + 2
             /\ SubSeq(history', 1, index + 1) = SubSeq(history, 1, index + 1)
             /\ index' = Len(history') - 1
             /\ redo(Enter)' = Enter'
        ELSE /\ history' = history
             /\ index' >= 0 =>
                   ListVal(objs', taglists', tasks')
                       = ListVal(objs', taglists', history'[index' + 1])
      ]_vars

(* a snapshot has been discarded: a Task that a builder made, and that was *)
(* added when it was built, is in no snapshot any more                     *)
C2_Witness ==
    /\ index >= 1
    /\ index = Len(history) - 1
    /\ \E b \in builders :
          \A k \in 1..Len(history) : b \notin Range(history[k])
    /\ redo(Enter) = Enter

(* the states of the scenario add(A), add(B), remove(index 0), undo, undo, *)
(* undo, from a fresh User                                                 *)
AfterAddA == BuildAndAdd(Fresh, InputA)
AfterAddB == BuildAndAdd(AfterAddA, InputB)
AfterRemove == remove_task(AfterAddB, PyGet(AfterAddB.tasks, 0))
AfterUndo1 == undo(AfterRemove)
AfterUndo2 == undo(AfterUndo1)
AfterUndo3 == undo(AfterUndo2)

(* C7 as stated: after add(A), add(B), remove(index 0) the list is [B];    *)
(* the first undo makes it [A, B], the second [A], the third [].           *)
C7_ScenarioAsStated ==
    /\ State = AfterRemove => LiveVal = <<InputB>>
    /\ State = AfterUndo1 => LiveVal = <<InputA, InputB>>
    /\ State = AfterUndo2 => LiveVal = <<InputA>>
    /\ State = AfterUndo3 => LiveVal = <<>>

(* C7 amended: after add(A), add(B), remove(index 0) the list is [B]; the  *)
(* first undo makes it [A, B], the second [A]; the third undo is a no-op   *)
(* at index 0 and the list stays [A].                                      *)
C7_ScenarioThirdUndoNoOp ==
    /\ State = AfterRemove => LiveVal = <<InputB>>
    /\ State = AfterUndo1 => LiveVal = <<InputA, InputB>>
    /\ State = AfterUndo2 => LiveVal = <<InputA>> /\ undo(Enter) = Enter
    /\ State = AfterUndo3 => LiveVal = <<InputA>> /\ index = 0

(* the state after the third undo of the scenario *)
C7_Witness ==
    /\ State = AfterUndo3
    /\ AfterRemove.index = 2
    /\ AfterUndo1.index = 1

(* C8: a later add_task or remove_task leaves every stored snapshot that   *)
(* it does not prune (those up to the cursor) unchanged in length, order   *)
(* and contents, also when the live list was installed by undo or redo.    *)
C8_SnapshotsIsolatedFromMutation ==
    [][Mutation =>
        \A k \in 1..(index + 1) :
            /\ k <= Len(history')
            /\ ListVal(objs', taglists', history'[k]) = SnapVal(k)]_vars

(* a snapshot was saved from a list that an undo or redo had installed,    *)
(* with an older snapshot kept below it                                    *)
C8_Witness ==
    /\ index >= 1
    /\ index = Len(history) - 1
    /\ Restored
    /\ tasks = PyGet(history, index)

(* C9: a stored snapshot shares no dictionary and no tags list with a live *)
(* Task or with another snapshot, at capture and at restore, so a tag      *)
(* appended through a retained TaskBuilder changes no stored snapshot.     *)
C9_SnapshotsShareNothing ==
    [][BuilderAddTag =>
        \A k \in 1..Len(history) :
            ListVal(objs', taglists', history'[k]) = SnapVal(k)]_vars

(* C11: every successful add_task or remove_task records exactly one       *)
(* snapshot: history becomes the old history up to the old cursor followed *)
(* by one snapshot of the new live list, and index is the last index, so   *)
(* len(history) = old index + 2.                                           *)
C11_MutationRecordsOneSnapshot ==
    [][Mutation =>
        /\ history' = Append(SubSeq(history, 1, index + 1), tasks')
        /\ ListVal(objs', taglists', history'[Len(history')])
               = ListVal(objs', taglists', tasks')
        /\ index' = Len(history') - 1
        /\ Len(history') = index + 2
        /\ tasks' # tasks]_vars

(* a remove_task has just been recorded after an add_task *)
C11_Witness ==
    /\ index >= 1
    /\ index = Len(history) - 1
    /\ tasks = PyGet(history, index)
    /\ Len(tasks) < Len(PyGet(history, index - 1))

(* C12: an undo or redo that has no further history in its direction is    *)
(* told apart from one that moved: the menu does not print its success     *)
(* message for an undo or redo that changed nothing.                       *)
C12_NoOpNotReportedAsSuccess ==
    [][ /\ (Choice4 /\ undo(Enter) = Enter) => out' # "Undo successful."
        /\ (Choice5 /\ redo(Enter) = Enter) => out' # "Redo successful."
      ]_vars

(* C13: remove_task of a task that is not in the live list fails with an   *)
(* error that reaches the caller (list.remove's ValueError), records no    *)
(* snapshot and leaves the live list, history and index as they were.      *)
C13_RemoveAbsentFails ==
    \A t \in builders :
        t \notin Range(tasks) =>
            LET r == remove_task(Enter, t)
            IN  /\ r.raised = "ValueError"
                /\ r.tasks = tasks
                /\ r.history = history
                /\ r.index = index
                /\ r.objs = objs
                /\ r.taglists = taglists

(* a remove_task has just failed in a session with tasks and history *)
C13_Witness ==
    /\ raised = "ValueError"
    /\ index >= 1
    /\ tasks # <<>>
    /\ \E t \in builders : t \notin Range(tasks)

(* C14: in the menu's remove flow an index outside 0..len(tasks)-1 (any    *)
(* negative index, any index when the list is empty) prints "Invalid       *)
(* index." and changes nothing else: live list, history, index and every   *)
(* object stay as they are.                                                *)
C14_InvalidIndexChangesNothing ==
    pc = "menu" =>
        \A line \in IndexInputs :
            (line.numeral /\ ~(0 <= line.value /\ line.value < Len(tasks))) =>
                choice2(Enter, line) = [Enter EXCEPT !.out = "Invalid index."]

(* "Invalid index." was printed in a session with tasks and history *)
C14_Witness ==
    /\ pc = "menu"
    /\ out = "Invalid index."
    /\ tasks # <<>>
    /\ Len(history) >= 2

(* C15: no input is fatal: after every input the menu loop is back at the  *)
(* menu, and it ends only by the Exit choice.                              *)
C15_NoInputIsFatal ==
    /\ pc \in {"menu", "exited"}
    /\ pc = "exited" => out = "Exiting the program."

(* C16: constructing or adding a task with an empty description fails with *)
(* a validation error: an exception reaches the caller, no task is         *)
(* appended and no snapshot is recorded.                                   *)
C16_EmptyDescriptionRejected ==
    [][\A in \in MenuInputs :
          (in.description = "" /\ Turn(choice1(Enter, in))) =>
              /\ raised' # "none"
              /\ tasks' = tasks
              /\ history' = history
              /\ index' = index]_vars

(* a sequence without its element at 0-based position i *)
Without(seq, i) == SubSeq(seq, 1, i) \o SubSeq(seq, i + 2, Len(seq))

(* C17: the menu's removal by a valid index i removes exactly the task at  *)
(* position i and keeps the other tasks, in their order and unchanged,     *)
(* also when an earlier task has the same description, due date and tags   *)
(* and when the live list was rebuilt by undo or redo.                     *)
C17_RemoveByIndexRemovesThatPosition ==
    pc = "menu" =>
        \A line \in IndexInputs :
            (line.numeral /\ 0 <= line.value /\ line.value < Len(tasks)) =>
                LET r == choice2(Enter, line)
                IN  /\ r.tasks = Without(tasks, line.value)
                    /\ ValOf(r) = Without(LiveVal, line.value)
                    /\ r.out = "Task removed successfully."

(* the second of two equal tasks that an undo or redo had rebuilt (two     *)
(* Tasks made one after the other by restore_from_memento) has just been   *)
(* removed, and the first is still there                                   *)
C17_Witness ==
    /\ pc = "menu"
    /\ out = "Task removed successfully."
    /\ \E t \in 1..(Len(objs) - 1) :
          /\ tasks = <<t>>
          /\ t \notin builders
          /\ (t + 1) \notin builders
          /\ TaskVal(objs, taglists, t) = TaskVal(objs, taglists, t + 1)

(* C18: undo and redo never change history: the same number of snapshots,  *)
(* each with the same dictionaries and the same contents, before and       *)
(* after; only index and the live list may change.                         *)
C18_UndoRedoKeepHistory ==
    [][(Undo \/ Redo) =>
        /\ history' = history
        /\ \A k \in 1..Len(history) :
              ListVal(objs', taglists', history'[k]) = SnapVal(k)
        /\ \A t \in 1..Len(objs) : objs'[t] = objs[t]
        /\ taglists' = taglists]_vars

(* two undos have taken the cursor from the third snapshot to the first *)
C18_Witness ==
    /\ index = 0
    /\ Len(history) >= 3
    /\ Restored
    /\ tasks # history[1]

(* C19: the empty initial list is never recorded: index = -1 exactly when  *)
(* history is empty, exactly when no add has succeeded yet (no Task        *)
(* exists); from the first add on, index stays >= 0 and history[0] stays   *)
(* what that add recorded, the one task it added, so no undo takes the     *)
(* session back before the first add.                                      *)
C19_FirstAddIsNeverUndone ==
    /\ [](/\ index = -1 <=> history = <<>>
          /\ history = <<>> <=> objs = <<>>
          /\ index >= 0 => history[1] = <<1>>)
    /\ [][index >= 0 =>
            /\ index' >= 0
            /\ history'[1] = history[1]
            /\ ListVal(objs', taglists', history'[1]) = SnapVal(1)]_vars

(* the cursor is back on the first snapshot after adds and undos, and the  *)
(* next undo leaves it there                                               *)
C19_Witness ==
    /\ index = 0
    /\ Len(history) >= 2
    /\ history[1] = <<1>>
    /\ tasks # <<1>>
    /\ undo(Enter).index = 0

(* b is a with one task added at the end, or a with one task removed *)
OneMutationApart(a, b) ==
    \/ Len(b) = Len(a) + 1 /\ SubSeq(b, 1, Len(a)) = a
    \/ Len(b) = Len(a) - 1 /\ \E i \in 0..(Len(a) - 1) : b = Without(a, i)

(* C20: each stored snapshot differs from the one before it by exactly one *)
(* task added at the end or exactly one task removed, so their lengths     *)
(* differ by exactly 1, also after pruning followed by an append.          *)
C20_AdjacentSnapshotsOneMutationApart ==
    \A k \in 1..(Len(history) - 1) :
        /\ OneMutationApart(SnapVal(k), SnapVal(k + 1))
        /\ Len(history[k + 1]) - Len(history[k]) \in {-1, 1}

(* a snapshot was pruned and another one, taken from a list that undo had  *)
(* installed, was appended in its place as the third                       *)
C20_Witness ==
    /\ Len(history) = 3
    /\ index = 2
    /\ \E i \in 1..Len(history[3]) : history[3][i] \notin builders
    /\ \E b \in builders :
          \A k \in 1..Len(history) : b \notin Range(history[k])

====
